---- MODULE Spec2Model ----
(***************************************************************************)
(* NCONotes: the canvas items (text boxes, images), their records, and the *)
(* notebook / page persistence of the main window.                         *)
(*                                                                         *)
(* The specifications of the module:                                       *)
(*   Spec        the main window (NCONotesWindow) and its canvas, started  *)
(*               on an empty notebooks directory;                          *)
(*   SpecFault   Spec with the writes of save_page failing;                *)
(*   SpecLoad    the main window started on a directory that holds a       *)
(*               notebook with a page file;                                *)
(*   SpecItem    one canvas item under mouse events (main.py);             *)
(*   SpecModels  the data classes of models.py and the record codec of     *)
(*               widgets.py.                                               *)
(*                                                                         *)
(* Page ids are modelled by their number: k stands for the string          *)
(* "page_k".  Coordinates and sizes are whole pixels (int() leaves them    *)
(* as they are); an image scale is kept in thousandths (1000 is 1.0).      *)
(***************************************************************************)
EXTENDS Integers, Sequences, FiniteSets, TLC

\* ------------------------------------------------------------------ bounds
\* Pages added, and items created on the canvas, in one session.
MaxPages == 2
MaxItems == 1
\* Largest text container edge and largest image scale a drag may produce.
MaxEdge == 450
MaxScale == 2000
\* Records of a page file found on the disk at start-up.
MaxRecords == 3

\* Names typed into the "New Notebook" / "New Page" dialogs.
NotebookNames == {"A", "B"}
PageNames == {"p", "q"}
\* Scene positions of double-clicks, and of drops.
Positions == {<<0, 0>>, <<500, 400>>}
DropPositions == {<<0, 0>>}
\* Rich text typed into a text box.
Contents == {"<p>hi</p>"}
\* Mouse displacements (dx, dy) between the press on a resize handle and a
\* move.  dx + dy is -800, -100 or 200: the scale factors -3, 0.5 and 2.
Deltas == {<<-400, -400>>, <<-60, -40>>, <<120, 80>>}
\* Text records handed to from_dict: x, y, width, height.
RecordSizes == {<<10, 10>>, <<100, 50>>, <<300, 200>>}
\* Bitmaps dropped on the canvas.
Pixmaps == {[width |-> 40, height |-> 20, bits |-> "ab"]}
\* Records of a page file found on the disk at start-up: two text records,
\* a text record without 'width', a record without 'type', a record of a
\* type this version does not know, and an image whose asset is not there.
StoredRecords ==
    {[type |-> "text", x |-> 0, y |-> 0, width |-> 300, height |-> 200,
      content |-> "<p>hi</p>"],
     [type |-> "text", x |-> 500, y |-> 400, width |-> 100, height |-> 50,
      content |-> ""],
     [type |-> "text", x |-> 0, y |-> 0, height |-> 200, content |-> "<p>hi</p>"],
     [x |-> 0, y |-> 0],
     [type |-> "sketch", x |-> 0, y |-> 0],
     [type |-> "image", image_id |-> "missing", x |-> 0, y |-> 0, scale |-> 1000,
      width |-> 40, height |-> 20]}

\* ------------------------------------------------------- program constants
None == "None"
NoPage == -1
border_width == 3
DefaultContainerWidth == 306
DefaultContainerHeight == 206
MinTextWidth == 100
MinTextHeight == 50
MinScale == 100
DefaultScale == 1000
ScaleDivisor == 200
EmptyDocument == ""

VARIABLES
    \* the main window
    disk,              \* notebooks_dir: name -> [name, pages, files, torn]
    notebook_list,     \* item texts of the notebook QListWidget
    page_list,         \* item texts of the page QListWidget, in order
    page_row,          \* its current row (0: no current item)
    current_notebook,
    current_page,
    scene,             \* canvas items in insertion order
    closed,            \* the window was closed
    warning,           \* the message box the last handler showed ("": none)
    raised,            \* the exception that left the last handler ("": none)
    loaded,            \* history: <<notebook, page>> last loaded onto the canvas
    created,           \* history: items and pages created in this session
    page_calls,        \* history: notebook -> new_page calls since it was created
    issued,            \* history: notebook -> page ids new_page ever assigned in it
    \* one canvas item on its own
    widget,            \* the item
    saved,             \* what its to_dict returned last
    \* the data classes
    data,              \* an object
    record,            \* what its to_dict returned
    restored           \* what from_dict made of the record

windowVars == <<disk, notebook_list, page_list, page_row, current_notebook, current_page,
                scene, closed, warning, raised, loaded, created, page_calls,
                issued>>
itemVars == <<widget, saved>>
modelVars == <<data, record, restored>>
vars == <<windowVars, itemVars, modelVars>>

\* ------------------------------------------------------------------ helpers
Max(a, b) == IF a >= b THEN a ELSE b

Reverse(s) == [i \in 1..Len(s) |-> s[Len(s) + 1 - i]]

\* ------------------------------------------------------------- canvas items
\* ResizableTextEdit.__init__: the container is the requested size plus the
\* border on both sides, or 306x206 when no size is given (size = <<>>).
NewTextEdit(pos, size) ==
    [kind |-> "text", x |-> pos[1], y |-> pos[2],
     container_width |-> IF size = <<>> THEN DefaultContainerWidth
                         ELSE size[1] + 2 * border_width,
     container_height |-> IF size = <<>> THEN DefaultContainerHeight
                          ELSE size[2] + 2 * border_width,
     html |-> EmptyDocument,
     is_resizing |-> FALSE, resize_start_width |-> 0, resize_start_height |-> 0]

\* The text edit fills the container inside the layout margins.
TextEditWidth(item) == item.container_width - 2 * border_width
TextEditHeight(item) == item.container_height - 2 * border_width

TextToDict(item) ==
    [type |-> "text", x |-> item.x, y |-> item.y,
     width |-> TextEditWidth(item), height |-> TextEditHeight(item),
     content |-> item.html]

TextFromDict(d) ==
    [NewTextEdit(<<d.x, d.y>>, <<d.width, d.height>>) EXCEPT !.html = d.content]

NewImage(pixmap, pos) ==
    [kind |-> "image", x |-> pos[1], y |-> pos[2], pixmap |-> pixmap,
     is_resizing |-> FALSE, resize_start_scale |-> DefaultScale,
     current_scale |-> DefaultScale]

ImageToDict(item) ==
    [type |-> "image", x |-> item.x, y |-> item.y, scale |-> item.current_scale,
     width |-> item.pixmap.width, height |-> item.pixmap.height,
     data |-> item.pixmap.bits]

ItemToDict(item) ==
    IF item.kind = "text" THEN TextToDict(item) ELSE ImageToDict(item)

\* QGraphicsScene.items(): descending stacking order, the item added last first.
SceneItems(s) == Reverse(s)

\* boundingRect of an item in scene coordinates, as <<left, top, width, height>>.
BoundingRect(item) ==
    IF item.kind = "text"
    THEN <<item.x, item.y, item.container_width, item.container_height>>
    ELSE <<item.x, item.y,
           (item.pixmap.width * item.current_scale) \div DefaultScale,
           (item.pixmap.height * item.current_scale) \div DefaultScale>>

Contains(rect, pos) ==
    /\ rect[1] <= pos[1] /\ pos[1] < rect[1] + rect[3]
    /\ rect[2] <= pos[2] /\ pos[2] < rect[2] + rect[4]

\* scene.itemAt(pos) is not None.
ItemAt(s, pos) == \E i \in 1..Len(s) : Contains(BoundingRect(s[i]), pos)

\* ------------------------------------------------------------- file system
\* A function with one more (or one replaced) entry.
Put(f, k, v) == [j \in DOMAIN f \cup {k} |-> IF j = k THEN v ELSE f[j]]

NotebookExists(d, name) == name \in DOMAIN d

\* <notebook>/pages/page_<k>.json exists.
PageFileExists(d, nb, k) == nb \in DOMAIN d /\ k \in DOMAIN d[nb].files

\* The file ends before the JSON text is complete: files[k] are the records
\* that were written in full.
PageFileTorn(d, nb, k) == PageFileExists(d, nb, k) /\ k \in d[nb].torn

\* The write with the file opened for appending.
WritePageFileAppend(d, nb, k, items) ==
    [d EXCEPT ![nb].files =
                 Put(@, k, (IF k \in DOMAIN @ THEN @[k] ELSE <<>>) \o items),
              ![nb].torn = @ \ {k}]

\* json.dump of {'items': items} to <notebook>/pages/page_<k>.json, the file
\* opened with 'w' and closed.
WritePageFile(d, nb, k, items) ==
    [d EXCEPT ![nb].files = Put(@, k, items), ![nb].torn = @ \ {k}]

\* The display names of a notebook's pages, in metadata order.
PageNamesOf(d, nb) == [i \in 1..Len(d[nb].pages) |-> d[nb].pages[i].name]

\* --------------------------------------------------- idle parts of a state
NoWidget == [kind |-> "none"]
NoRecord == [type |-> "none"]
NoData == [class |-> "none"]

ItemIdle == widget = NoWidget /\ saved = NoRecord
ModelsIdle == data = NoData /\ record = NoRecord /\ restored = NoData

\* ------------------------------------------------------------------ window
\* NCONotesWindow.__init__ on an empty notebooks directory.
WindowInit ==
    /\ disk = <<>>
    /\ notebook_list = {}
    /\ page_list = <<>>
    /\ page_row = 0
    /\ current_notebook = None
    /\ current_page = NoPage
    /\ scene = <<>>
    /\ closed = FALSE
    /\ warning = ""
    /\ raised = ""
    /\ loaded = <<None, NoPage>>
    /\ created = [items |-> 0, pages |-> 0]
    /\ page_calls = [n \in NotebookNames |-> 0]
    /\ issued = [n \in NotebookNames |-> {}]

Init == WindowInit /\ ItemIdle /\ ModelsIdle

\* load_notebooks: the list is cleared and refilled with every directory
\* that holds a notebook.json.
LoadNotebooks(d) == notebook_list' = DOMAIN d

\* load_pages: the page list is cleared, which leaves it without a current
\* row, and refilled from the metadata of the current notebook.
LoadPages(d, nb) ==
    /\ page_list' = IF nb = None THEN <<>> ELSE PageNamesOf(d, nb)
    /\ page_row' = 0

\* new_notebook: mkdir(exist_ok=True), then notebook.json is written with an
\* empty page list, whether or not the notebook existed.
NotebookAfterCreate(d, name) ==
    [name |-> name, pages |-> <<>>,
     files |-> IF NotebookExists(d, name) THEN d[name].files ELSE <<>>,
     torn |-> IF NotebookExists(d, name) THEN d[name].torn ELSE {}]

new_notebook(name) ==
    /\ ~closed
    /\ disk' = Put(disk, name, NotebookAfterCreate(disk, name))
    /\ LoadNotebooks(disk')
    /\ warning' = ""
    /\ raised' = ""
    /\ page_calls' = [page_calls EXCEPT ![name] = 0]
    /\ UNCHANGED <<page_list, page_row, current_notebook, current_page, scene,
                   closed, loaded, created, issued, itemVars, modelVars>>

\* The id without the + 1.
NextPageIdFromZero(pages) == Len(pages)

\* The id a new page gets: page_<len(pages) + 1>.
NextPageId(pages) == Len(pages) + 1

new_page(name) ==
    /\ ~closed
    /\ IF current_notebook = None
       THEN /\ warning' = "No Notebook"
            /\ raised' = ""
            /\ UNCHANGED <<disk, page_list, page_row, page_calls, issued,
                           created>>
       ELSE LET pages == disk[current_notebook].pages
                page_id == NextPageId(pages)
                meta == [disk EXCEPT ![current_notebook].pages =
                            Append(pages, [id |-> page_id, name |-> name])]
            IN /\ created.pages < MaxPages
               /\ disk' = WritePageFile(meta, current_notebook, page_id, <<>>)
               /\ LoadPages(disk', current_notebook)
               /\ warning' = ""
               /\ raised' = ""
               /\ page_calls' = [page_calls EXCEPT ![current_notebook] = @ + 1]
               /\ issued' = [issued EXCEPT ![current_notebook] = @ \cup {page_id}]
               /\ created' = [created EXCEPT !.pages = @ + 1]
    /\ UNCHANGED <<notebook_list, current_notebook, current_page, scene, closed,
                   loaded, itemVars, modelVars>>

\* currentItemChanged of the notebook list.  Every new_notebook rebuilds the
\* list and leaves it without a current item, so any listed notebook, the
\* current one too, can be selected after it.
on_notebook_selected(name) ==
    /\ ~closed
    /\ name \in notebook_list
    /\ current_notebook' = name
    /\ LoadPages(disk, name)
    /\ warning' = ""
    /\ raised' = ""
    /\ UNCHANGED <<disk, notebook_list, current_page, scene, closed, loaded,
                   created, page_calls, issued, itemVars, modelVars>>

\* save_page: every item of scene.items() is written, in that order, to
\* <current_notebook>/pages/<current_page>.json.
SavedItems(s) == [i \in 1..Len(s) |-> ItemToDict(SceneItems(s)[i])]

SavePage(d, nb, pg, s) ==
    IF pg = NoPage \/ nb = None THEN d
    ELSE WritePageFile(d, nb, pg, SavedItems(s))

\* The keys ResizableTextEdit.from_dict reads.
TextFields == {"x", "y", "width", "height", "content"}

\* item_data['type'], or a key from_dict reads of a text record, is absent:
\* the subscript raises KeyError.
RecordRaises(r) ==
    \/ "type" \notin DOMAIN r
    \/ r.type = "text" /\ ~(TextFields \subseteq DOMAIN r)

\* The index of the first record the loop raises on; Len + 1 when none does.
FirstRaising(records) ==
    IF \E i \in 1..Len(records) : RecordRaises(records[i])
    THEN CHOOSE i \in 1..Len(records) :
            /\ RecordRaises(records[i])
            /\ \A j \in 1..(i - 1) : ~RecordRaises(records[j])
    ELSE Len(records) + 1

\* The loop of load_page_content: text records are restored in file order,
\* every other record is passed over, and the exception of a record ends the
\* loop with the items added before it on the scene.
RestoreItems(records) ==
    LET last == FirstRaising(records) - 1
        Restore[i \in 0..last] ==
            IF i = 0 THEN <<>>
            ELSE IF records[i].type = "text"
                 THEN Append(Restore[i - 1], TextFromDict(records[i]))
                 ELSE Restore[i - 1]
    IN Restore[last]

\* load_page_content: the scene is cleared; an absent file leaves it empty,
\* and so does a file json.load cannot parse.
LoadPageContent(d, nb, page_id) ==
    IF ~PageFileExists(d, nb, page_id) \/ PageFileTorn(d, nb, page_id) THEN <<>>
    ELSE RestoreItems(d[nb].files[page_id])

\* The exception that leaves load_page_content ("": none).
LoadException(d, nb, page_id) ==
    IF ~PageFileExists(d, nb, page_id) THEN ""
    ELSE IF PageFileTorn(d, nb, page_id) THEN "JSONDecodeError"
    ELSE IF FirstRaising(d[nb].files[page_id]) <= Len(d[nb].files[page_id])
         THEN "KeyError"
         ELSE ""

\* The id of the first page of the metadata with this display name.
FindPageId(pages, page_name) ==
    IF \E i \in 1..Len(pages) : pages[i].name = page_name
    THEN LET first == CHOOSE i \in 1..Len(pages) :
                          /\ pages[i].name = page_name
                          /\ \A j \in 1..(i - 1) : pages[j].name # page_name
         IN pages[first].id
    ELSE NoPage

\* currentItemChanged of the page list: the row clicked becomes the current
\* row, and the handler runs when it was not the current row already.
on_page_selected(row) ==
    /\ ~closed
    /\ row \in 1..Len(page_list)
    /\ row # page_row
    /\ page_row' = row
    /\ LET after_save == SavePage(disk, current_notebook, current_page, scene)
           page_id == FindPageId(after_save[current_notebook].pages, page_list[row])
       IN /\ disk' = after_save
          /\ IF page_id # NoPage
             THEN /\ current_page' = page_id
                  /\ scene' = LoadPageContent(after_save, current_notebook, page_id)
                  /\ raised' = LoadException(after_save, current_notebook, page_id)
                  /\ loaded' = <<current_notebook, page_id>>
             ELSE /\ raised' = ""
                  /\ UNCHANGED <<current_page, scene, loaded>>
    /\ warning' = ""
    /\ UNCHANGED <<notebook_list, page_list, current_notebook, closed, created,
                   page_calls, issued, itemVars, modelVars>>

\* The Save action of the toolbar (also Ctrl+S).
save_page ==
    /\ ~closed
    /\ disk' = SavePage(disk, current_notebook, current_page, scene)
    /\ warning' = ""
    /\ raised' = ""
    /\ UNCHANGED <<notebook_list, page_list, page_row, current_notebook,
                   current_page, scene, closed, loaded, created, page_calls,
                   issued, itemVars, modelVars>>

closeEvent ==
    /\ ~closed
    /\ disk' = IF current_page # NoPage
               THEN SavePage(disk, current_notebook, current_page, scene)
               ELSE disk
    /\ closed' = TRUE
    /\ warning' = ""
    /\ raised' = ""
    /\ UNCHANGED <<notebook_list, page_list, page_row, current_notebook,
                   current_page, scene, loaded, created, page_calls, issued,
                   itemVars, modelVars>>

\* InfiniteCanvas.mouseDoubleClickEvent on a position no item covers.
mouseDoubleClickEvent(pos) ==
    /\ ~closed
    /\ created.items < MaxItems
    /\ ~ItemAt(scene, pos)
    /\ scene' = Append(scene, NewTextEdit(pos, <<>>))
    /\ created' = [created EXCEPT !.items = @ + 1]
    /\ warning' = ""
    /\ raised' = ""
    /\ UNCHANGED <<disk, notebook_list, page_list, page_row, current_notebook,
                   current_page, closed, loaded, page_calls, issued, itemVars,
                   modelVars>>

\* InfiniteCanvas.dropEvent with image data.
dropEvent(pos, pixmap) ==
    /\ ~closed
    /\ created.items < MaxItems
    /\ scene' = Append(scene, NewImage(pixmap, pos))
    /\ created' = [created EXCEPT !.items = @ + 1]
    /\ warning' = ""
    /\ raised' = ""
    /\ UNCHANGED <<disk, notebook_list, page_list, page_row, current_notebook,
                   current_page, closed, loaded, page_calls, issued, itemVars,
                   modelVars>>

Next ==
    \/ \E name \in NotebookNames : new_notebook(name)
    \/ \E name \in PageNames : new_page(name)
    \/ \E name \in NotebookNames : on_notebook_selected(name)
    \/ \E row \in 1..MaxPages : on_page_selected(row)
    \/ save_page
    \/ closeEvent
    \/ \E pos \in Positions : mouseDoubleClickEvent(pos)
    \/ \E pos \in DropPositions, pixmap \in Pixmaps : dropEvent(pos, pixmap)

Spec == Init /\ [][Next]_vars

\* ------------------------------------------ the window with failing writes
\* The steps of save_page at which the operating system may refuse: open(),
\* and a write of json.dump (or the flush when the file is closed).
SaveSteps == {"open", "write"}

\* The disk after a save_page that raised OSError.  A failing open() leaves
\* the file as it was.  open(page_path, 'w') has emptied the file when a write
\* fails: the file then holds the records that were written in full, without
\* the end of the JSON text.
SavePageFails(d, nb, pg, s, step, written) ==
    IF step = "open" THEN d
    ELSE [d EXCEPT ![nb].files = Put(@, pg, SubSeq(SavedItems(s), 1, written)),
                   ![nb].torn = @ \cup {pg}]

\* The Save action when the write fails: the exception leaves save_page.
save_page_fails(step, written) ==
    /\ ~closed
    /\ current_page # NoPage /\ current_notebook # None
    /\ written \in 0..Len(scene)
    /\ disk' = SavePageFails(disk, current_notebook, current_page, scene,
                             step, written)
    /\ warning' = ""
    /\ raised' = "OSError"
    /\ UNCHANGED <<notebook_list, page_list, page_row, current_notebook,
                   current_page, scene, closed, loaded, created, page_calls,
                   issued, itemVars, modelVars>>

\* on_page_selected when the save of the page being left fails: the
\* exception leaves the handler before the new page is looked up.
on_page_selected_fails(row, step, written) ==
    /\ ~closed
    /\ row \in 1..Len(page_list)
    /\ row # page_row
    /\ current_page # NoPage /\ current_notebook # None
    /\ written \in 0..Len(scene)
    /\ page_row' = row
    /\ disk' = SavePageFails(disk, current_notebook, current_page, scene,
                             step, written)
    /\ warning' = ""
    /\ raised' = "OSError"
    /\ UNCHANGED <<notebook_list, page_list, current_notebook, current_page,
                   scene, closed, loaded, created, page_calls, issued, itemVars,
                   modelVars>>

\* closeEvent when the save fails: event.accept() is not reached, and whether
\* the window closes is left to Qt.
closeEvent_fails(step, written, closes) ==
    /\ ~closed
    /\ current_page # NoPage /\ current_notebook # None
    /\ written \in 0..Len(scene)
    /\ disk' = SavePageFails(disk, current_notebook, current_page, scene,
                             step, written)
    /\ closed' = closes
    /\ warning' = ""
    /\ raised' = "OSError"
    /\ UNCHANGED <<notebook_list, page_list, page_row, current_notebook,
                   current_page, scene, loaded, created, page_calls, issued,
                   itemVars, modelVars>>

NextFault ==
    \/ Next
    \/ \E step \in SaveSteps, written \in 0..MaxItems :
          save_page_fails(step, written)
    \/ \E row \in 1..MaxPages, step \in SaveSteps, written \in 0..MaxItems :
          on_page_selected_fails(row, step, written)
    \/ \E step \in SaveSteps, written \in 0..MaxItems, closes \in BOOLEAN :
          closeEvent_fails(step, written, closes)

SpecFault == Init /\ [][NextFault]_vars

\* ------------------------------------- the window on a page file from disk
\* The files of StoredRecords with at most MaxRecords records.
StoredFiles ==
    UNION {[1..n -> StoredRecords] : n \in 1..MaxRecords}

\* NCONotesWindow.__init__ on a notebooks directory that holds notebook "A"
\* with one page, "p" (page_1), and its page file.
InitLoad ==
    /\ \E file \in StoredFiles :
          disk = Put(<<>>, "A", [name |-> "A", pages |-> <<[id |-> 1, name |-> "p"]>>,
                                  files |-> Put(<<>>, 1, file), torn |-> {}])
    /\ notebook_list = {"A"}
    /\ page_list = <<>>
    /\ page_row = 0
    /\ current_notebook = None
    /\ current_page = NoPage
    /\ scene = <<>>
    /\ closed = FALSE
    /\ warning = ""
    /\ raised = ""
    /\ loaded = <<None, NoPage>>
    /\ created = [items |-> 0, pages |-> 0]
    /\ page_calls = [n \in NotebookNames |-> 0]
    /\ issued = [n \in NotebookNames |-> {}]
    /\ ItemIdle /\ ModelsIdle

NextLoad ==
    \/ \E name \in NotebookNames : on_notebook_selected(name)
    \/ \E row \in 1..MaxPages : on_page_selected(row)
    \/ save_page
    \/ closeEvent
    \/ \E pos \in Positions : mouseDoubleClickEvent(pos)
    \/ \E pos \in DropPositions, pixmap \in Pixmaps : dropEvent(pos, pixmap)

SpecLoad == InitLoad /\ [][NextLoad]_vars

\* ------------------------------------------------- one item, mouse events
\* mousePressEvent with the left button on the resize handle.
PressHandle(item) ==
    IF item.kind = "text"
    THEN [item EXCEPT !.is_resizing = TRUE,
                      !.resize_start_width = item.container_width,
                      !.resize_start_height = item.container_height]
    ELSE [item EXCEPT !.is_resizing = TRUE,
                      !.resize_start_scale = item.current_scale]

\* ResizableTextEdit.mouseMoveEvent while resizing: the container is at
\* least the minimum text size plus the border.
TextResizeWidth(start_width, dx) ==
    Max(MinTextWidth + 2 * border_width, start_width + dx)

TextResizeHeight(start_height, dy) ==
    Max(MinTextHeight + 2 * border_width, start_height + dy)

\* The scale of the move without the max.
ImageResizeScaleUnclamped(start_scale, dx, dy) ==
    (start_scale * (ScaleDivisor + dx + dy)) \div ScaleDivisor

\* ResizableImage.mouseMoveEvent while resizing:
\* max(0.1, resize_start_scale * (1.0 + (dx + dy) / 200.0)).  The division
\* rounds only results below the floor, which the max replaces.
ImageResizeScale(start_scale, dx, dy) ==
    Max(MinScale, (start_scale * (ScaleDivisor + dx + dy)) \div ScaleDivisor)

MoveHandle(item, delta) ==
    IF item.kind = "text"
    THEN [item EXCEPT
            !.container_width = TextResizeWidth(item.resize_start_width, delta[1]),
            !.container_height = TextResizeHeight(item.resize_start_height, delta[2])]
    ELSE [item EXCEPT
            !.current_scale = ImageResizeScale(item.resize_start_scale,
                                               delta[1], delta[2])]

WithinBounds(item) ==
    IF item.kind = "text"
    THEN item.container_width <= MaxEdge /\ item.container_height <= MaxEdge
    ELSE item.current_scale <= MaxScale

\* A text box made by a double-click.
CreateText(pos) ==
    /\ widget = NoWidget
    /\ widget' = NewTextEdit(pos, <<>>)
    /\ UNCHANGED <<saved, windowVars, modelVars>>

\* A text box made by ResizableTextEdit.from_dict from a record.
LoadText(pos, size, content) ==
    /\ widget = NoWidget
    /\ widget' = TextFromDict([type |-> "text", x |-> pos[1], y |-> pos[2],
                               width |-> size[1], height |-> size[2],
                               content |-> content])
    /\ UNCHANGED <<saved, windowVars, modelVars>>

\* An image made by a drop.
CreateImage(pos, pixmap) ==
    /\ widget = NoWidget
    /\ widget' = NewImage(pixmap, pos)
    /\ UNCHANGED <<saved, windowVars, modelVars>>

mousePressEvent ==
    /\ widget # NoWidget
    /\ ~widget.is_resizing
    /\ widget' = PressHandle(widget)
    /\ UNCHANGED <<saved, windowVars, modelVars>>

mouseMoveEvent(delta) ==
    /\ widget # NoWidget
    /\ widget.is_resizing
    /\ WithinBounds(MoveHandle(widget, delta))
    /\ widget' = MoveHandle(widget, delta)
    /\ UNCHANGED <<saved, windowVars, modelVars>>

mouseReleaseEvent ==
    /\ widget # NoWidget
    /\ widget.is_resizing
    /\ widget' = [widget EXCEPT !.is_resizing = FALSE]
    /\ UNCHANGED <<saved, windowVars, modelVars>>

\* to_dict of the item, as save_page calls it.
to_dict ==
    /\ widget # NoWidget
    /\ saved' = ItemToDict(widget)
    /\ UNCHANGED <<widget, windowVars, modelVars>>

NextItem ==
    \/ \E pos \in Positions : CreateText(pos)
    \/ \E pos \in Positions, size \in RecordSizes, content \in Contents :
          LoadText(pos, size, content)
    \/ \E pos \in DropPositions, pixmap \in Pixmaps : CreateImage(pos, pixmap)
    \/ mousePressEvent
    \/ \E delta \in Deltas : mouseMoveEvent(delta)
    \/ mouseReleaseEvent
    \/ to_dict

SpecItem == Init /\ [][NextItem]_vars

\* ------------------------------------------------------------ data classes
\* models.py: TextBoxData.__init__ and ImageData.__init__.
TextBoxData(content, x, y, width, height) ==
    [class |-> "TextBoxData", content |-> content, x |-> x, y |-> y,
     width |-> width, height |-> height]

ImageData(image_id, x, y, scale, width, height) ==
    [class |-> "ImageData", image_id |-> image_id, x |-> x, y |-> y,
     scale |-> scale, width |-> width, height |-> height]

TextBoxDataToDict(t) ==
    [type |-> "text", x |-> t.x, y |-> t.y, width |-> t.width,
     height |-> t.height, content |-> t.content]

\* from_dict with width and height passed in each other's place.
TextBoxDataFromDictSwapped(d) ==
    TextBoxData(d.content, d.x, d.y, d.height, d.width)

TextBoxDataFromDict(d) ==
    TextBoxData(d.content, d.x, d.y, d.width, d.height)

ImageDataToDict(t) ==
    [type |-> "image", image_id |-> t.image_id, x |-> t.x, y |-> t.y,
     scale |-> t.scale, width |-> t.width, height |-> t.height]

ImageDataFromDict(d) ==
    ImageData(d.image_id, d.x, d.y, d.scale, d.width, d.height)

\* widgets.py: ResizableTextEdit with its text area; to_dict and from_dict go
\* through TextBoxData.
TextAreaEdit(pos, size) ==
    [class |-> "ResizableTextEdit", x |-> pos[1], y |-> pos[2],
     text_area_width |-> size[1], text_area_height |-> size[2],
     html |-> EmptyDocument]

TextAreaToDict(w) ==
    TextBoxDataToDict(
        TextBoxData(w.html, w.x, w.y, w.text_area_width, w.text_area_height))

TextAreaFromDict(d) ==
    LET text_data == TextBoxDataFromDict(d)
    IN [TextAreaEdit(<<text_data.x, text_data.y>>,
                     <<text_data.width, text_data.height>>)
           EXCEPT !.html = text_data.content]

ToDict(object) ==
    CASE object.class = "TextBoxData" -> TextBoxDataToDict(object)
      [] object.class = "ImageData" -> ImageDataToDict(object)
      [] object.class = "ResizableTextEdit" -> TextAreaToDict(object)

FromDict(class, d) ==
    CASE class = "TextBoxData" -> TextBoxDataFromDict(d)
      [] class = "ImageData" -> ImageDataFromDict(d)
      [] class = "ResizableTextEdit" -> TextAreaFromDict(d)

\* The valid items the codec is run on.
ItemContents == {EmptyDocument} \cup Contents
ItemPositions == Positions \cup {<<-20, 35>>}
ItemSizes == {<<100, 50>>, <<300, 200>>, <<120, 400>>}
ImageIds == {"img1", "img2"}
ItemScales == {MinScale, DefaultScale, MaxScale}

ValidTextItems ==
    {TextBoxData(c, pos[1], pos[2], size[1], size[2]) :
        c \in ItemContents, pos \in ItemPositions, size \in ItemSizes}

ValidImageItems ==
    {ImageData(id, pos[1], pos[2], sc, pm.width, pm.height) :
        id \in ImageIds, pos \in ItemPositions, sc \in ItemScales, pm \in Pixmaps}

ValidTextEdits ==
    {[TextAreaEdit(pos, size) EXCEPT !.html = c] :
        c \in ItemContents, pos \in ItemPositions, size \in ItemSizes}

InitModels ==
    /\ WindowInit /\ ItemIdle
    /\ data \in ValidTextItems \cup ValidImageItems \cup ValidTextEdits
    /\ record = NoRecord
    /\ restored = NoData

model_to_dict ==
    /\ record = NoRecord
    /\ record' = ToDict(data)
    /\ UNCHANGED <<data, restored, windowVars, itemVars>>

model_from_dict ==
    /\ record # NoRecord
    /\ restored = NoData
    /\ restored' = FromDict(data.class, record)
    /\ UNCHANGED <<data, record, windowVars, itemVars>>

NextModels == model_to_dict \/ model_from_dict

SpecModels == InitModels /\ [][NextModels]_vars

\* ------------------------------------------------------------------ claims
\* The page id on_page_selected resolves for a row of the page list.
Resolved(row) == FindPageId(disk[current_notebook].pages, page_list[row])

PageSelected == \E row \in 1..MaxPages : on_page_selected(row)

\* C1: record round-trip.  The record to_dict emits carries the type tag of
\* the item ("text" or "image"), and from_dict of that record equals the item
\* field for field.
C1_RecordRoundTrip ==
    /\ record # NoRecord
       => record.type = (IF data.class = "ImageData" THEN "image" ELSE "text")
    /\ restored # NoData => restored = data

\* An image item at the scale floor has gone through to_dict and from_dict.
C1_Witness ==
    /\ restored # NoData
    /\ data.class = "ImageData"
    /\ record.image_id = "img2"
    /\ restored.scale = MinScale

\* C2: an image on the canvas survives save/load with a stable identity: when
\* a page is loaded, every image record of its file carries an image_id and
\* the canvas then holds an image item with that image_id, x, y and scale.
C2_ImageSurvivesSaveLoad ==
    [][\A row \in 1..MaxPages :
         (on_page_selected(row) /\ Resolved(row) # NoPage
            /\ PageFileExists(disk', current_notebook, Resolved(row)))
         => LET file == disk'[current_notebook].files[Resolved(row)]
            IN \A i \in 1..Len(file) :
                 file[i].type = "image"
                 => /\ "image_id" \in DOMAIN file[i]
                    /\ \E j \in 1..Len(scene') :
                         /\ scene'[j].kind = "image"
                         /\ "image_id" \in DOMAIN scene'[j]
                         /\ scene'[j].image_id = file[i].image_id
                         /\ scene'[j].x = file[i].x
                         /\ scene'[j].y = file[i].y
                         /\ scene'[j].current_scale = file[i].scale]_vars

\* C3: save-on-leave.  Leaving an open page, by selecting a page or by closing
\* the window, writes the items on the canvas to the file of the page being
\* left (the page last loaded onto the canvas); on a switch the target is
\* loaded from the disk as it is after that write; leaving with no page open
\* writes nothing.
C3_SaveOnLeave ==
    [][(PageSelected \/ closeEvent)
         => IF current_page # NoPage
            THEN /\ PageFileExists(disk', loaded[1], loaded[2])
                 /\ disk'[loaded[1]].files[loaded[2]] = SavedItems(scene)
                 /\ loaded' # loaded
                    => scene' = LoadPageContent(disk', loaded'[1], loaded'[2])
            ELSE disk' = disk]_vars

\* C4: selecting a notebook makes its page_0 (id 0) the current page and puts
\* the items stored for page_0 on the canvas.
C4_OpenNotebookLoadsDefaultPage ==
    [][\A name \in NotebookNames :
         on_notebook_selected(name)
         => /\ current_page' = 0
            /\ scene' = LoadPageContent(disk', name, 0)]_vars

\* C5: new_notebook leaves the metadata with exactly one page, page_0 (id 0),
\* named after the notebook; the page list shown for the fresh notebook is
\* empty and loading its page_0 gives no items; page_0 stays the first page
\* after every new_page.
C5_DefaultPage ==
    [][/\ \A name \in NotebookNames :
            new_notebook(name)
            => /\ disk'[name].pages = <<[id |-> 0, name |-> name]>>
               /\ LoadPageContent(disk', name, 0) = <<>>
       /\ \A name \in NotebookNames :
            (on_notebook_selected(name) /\ page_calls[name] = 0)
            => page_list' = <<>>
       /\ \A name \in PageNames :
            (new_page(name) /\ current_notebook # None)
            => disk'[current_notebook].pages[1].id = 0]_vars

\* C6: on a notebook created by new_notebook, the k-th new_page call since
\* then is assigned the id page_k, appends [id page_k, the name given] to the
\* metadata and leaves the page file page_k holding an empty item list.
C6_PageIdSequencing ==
    [][\A name \in PageNames :
         (new_page(name) /\ current_notebook # None)
         => LET nb == current_notebook
                k == page_calls'[nb]
            IN /\ k = page_calls[nb] + 1
               /\ disk'[nb].pages = Append(disk[nb].pages, [id |-> k, name |-> name])
               /\ PageFileExists(disk', nb, k)
               /\ disk'[nb].files[k] = <<>>]_vars

\* Two new_page calls were made on one notebook since it was created, and
\* the second page is in its metadata.
C6_Witness ==
    \E nb \in DOMAIN disk :
        /\ page_calls[nb] = 2
        /\ Len(disk[nb].pages) = 2
        /\ disk[nb].pages[2].id = 2

\* C7: page ids are never reused.  The id new_page assigns is larger than
\* every id it assigned in that notebook before, and the page file it creates
\* does not replace one that holds saved items.
C7_PageIdsNeverReused ==
    [][\A name \in PageNames :
         (new_page(name) /\ current_notebook # None)
         => LET nb == current_notebook
                id == disk'[nb].pages[Len(disk'[nb].pages)].id
            IN /\ \A old \in issued[nb] : old < id
               /\ ~(PageFileExists(disk, nb, id) /\ disk[nb].files[id] # <<>>)]_vars

\* C8: new_notebook for a name whose directory exists shows a duplicate-notebook
\* error and leaves that notebook's metadata and page files as they were.
C8_DuplicateNotebookRejected ==
    [][\A name \in NotebookNames :
         (new_notebook(name) /\ NotebookExists(disk, name))
         => /\ warning' # ""
            /\ disk'[name] = disk[name]]_vars

\* C9: loading a page listed in the metadata whose file is absent gives an
\* empty canvas without an error; selecting a page that the metadata does not
\* resolve reports a page-not-found error.
C9_LoadPageAbsences ==
    [][\A row \in 1..MaxPages :
         on_page_selected(row)
         => /\ Resolved(row) = NoPage => warning' # ""
            /\ (Resolved(row) # NoPage
                  /\ ~PageFileExists(disk', current_notebook, Resolved(row)))
               => (scene' = <<>> /\ warning' = "")]_vars

\* C10: minimum-size clamp.  The width and height to_dict writes for a text
\* item are at least 100 and 50, however the item was made and resized.
C10_MinimumSizeClamp ==
    saved.type = "text"
    => saved.width >= MinTextWidth /\ saved.height >= MinTextHeight

\* C11: scale floor.  Through every sequence of press, move and release events
\* the current scale of an image item is at least 0.1; a move whose computed
\* scale is 0 or below leaves it at exactly 0.1; and to_dict writes the
\* current scale.
C11_ScaleFloor ==
    /\ [](widget.kind = "image" => widget.current_scale >= MinScale)
    /\ [][/\ \A delta \in Deltas :
              (/\ mouseMoveEvent(delta)
               /\ widget.kind = "image"
               /\ widget.resize_start_scale
                    * (ScaleDivisor + delta[1] + delta[2]) <= 0)
              => widget'.current_scale = MinScale
          /\ (to_dict /\ widget.kind = "image")
             => saved'.scale = widget.current_scale]_vars

\* An image pressed at scale 1.0 was dragged to a computed scale below 0 and
\* then written by to_dict.
C11_Witness ==
    /\ widget.kind = "image"
    /\ widget.resize_start_scale = DefaultScale
    /\ widget.current_scale = MinScale
    /\ saved.type = "image"
    /\ saved.scale = MinScale

\* A text record ResizableTextEdit.from_dict can restore.
RestorableText(r) ==
    /\ "type" \in DOMAIN r
    /\ r.type = "text"
    /\ TextFields \subseteq DOMAIN r

IsTextItem(item) == item.kind = "text"

\* C12: per-item fault tolerance on load.  Loading a page file leaves every
\* text record that can be restored on the canvas, in file order, whatever
\* records that cannot be restored (a field absent, an unknown type, an image
\* without its asset) stand between them, and no exception leaves the load.
C12_PerItemFaultTolerance ==
    [][\A row \in 1..MaxPages :
         (/\ on_page_selected(row)
          /\ Resolved(row) # NoPage
          /\ PageFileExists(disk', current_notebook, Resolved(row))
          /\ ~PageFileTorn(disk', current_notebook, Resolved(row)))
         => LET file == disk'[current_notebook].files[Resolved(row)]
                good == SelectSeq(file, RestorableText)
            IN /\ raised' = ""
               /\ SelectSeq(scene', IsTextItem)
                    = [i \in 1..Len(good) |-> TextFromDict(good[i])]]_vars

\* C13: save idempotence.  After save_page, a second save_page with the canvas
\* as it is leaves the disk as the first left it: the page file holds the same
\* records in the same order and no file is added.
C13_SaveIdempotence ==
    [][save_page
         => SavePage(disk', current_notebook', current_page', scene') = disk']_vars

\* A page is open with a loaded text box and a dropped image on the canvas,
\* and its file holds what save_page wrote for them.
C13_Witness ==
    /\ ~closed
    /\ current_page # NoPage
    /\ Len(scene) >= 2
    /\ \E i \in 1..Len(scene) : scene[i].kind = "image"
    /\ PageFileExists(disk, current_notebook, current_page)
    /\ disk[current_notebook].files[current_page] = SavedItems(scene)

\* C14: item order round-trips.  save_page writes the records in the items'
\* insertion order; and when a page holding text boxes only is saved and
\* loaded again, saving the canvas as loaded would write the records in the
\* order of that save.
C14_ItemOrderRoundTrips ==
    [][/\ (save_page /\ current_page # NoPage /\ current_notebook # None)
          => disk'[current_notebook].files[current_page]
               = [i \in 1..Len(scene) |-> ItemToDict(scene[i])]
       /\ \A row \in 1..MaxPages :
            (/\ on_page_selected(row)
             /\ current_page # NoPage
             /\ Resolved(row) = current_page
             /\ \A i \in 1..Len(scene) : scene[i].kind = "text")
            => SavedItems(scene') = disk'[current_notebook].files[current_page]]_vars

\* C15: save is all-or-nothing per page.  A save_page that raises leaves the
\* disk as it was, and no reachable state has a page file that ends before
\* its JSON text is complete.
C15_SaveAllOrNothing ==
    /\ [](\A nb \in DOMAIN disk : disk[nb].torn = {})
    /\ [][raised' = "OSError" => disk' = disk]_vars

\* C16: pages are addressed by id.  With the page list showing the pages of
\* the metadata, selecting the row of an entry makes that entry's id the
\* current page and puts the items of that id's page file on the canvas.
C16_PagesAddressedById ==
    [][\A row \in 1..MaxPages :
         (/\ on_page_selected(row)
          /\ current_notebook # None
          /\ page_list = PageNamesOf(disk, current_notebook))
         => LET entry == disk[current_notebook].pages[row]
            IN /\ current_page' = entry.id
               /\ scene' = LoadPageContent(disk', current_notebook, entry.id)]_vars

\* C17: save target consistency across notebooks.  A step that saves (the
\* Save action, a page selection, the close) creates or changes no page file
\* but that of the notebook and page last loaded onto the canvas.
C17_SaveTargetConsistency ==
    [][(save_page \/ closeEvent \/ PageSelected)
         => \A nb \in DOMAIN disk' :
              \A k \in DOMAIN disk'[nb].files :
                (\/ ~PageFileExists(disk, nb, k)
                 \/ disk'[nb].files[k] # disk[nb].files[k])
                => <<nb, k>> = loaded]_vars

====
